---- MODULE Spec2Model ----
(***************************************************************************)
(* Model of fetch-with-retries (src/scripts/monitor.js, lines 150-293):    *)
(* one fetchWithRetry call is a task that suspends at `await fetch`, at    *)
(* `await res.text()` (readResponseSnippet) and at `await sleep`.  Every   *)
(* action below runs the code from one suspension point to the next.       *)
(*                                                                         *)
(* Numbers are integers: Math.random() is the rational rnd / RandDen, and  *)
(* 0.3 is the rational 3/10 (binary floating point rounding is not         *)
(* modelled).  Strings are sequences of one-character strings.             *)
(***************************************************************************)
EXTENDS Integers, Sequences, FiniteSets, TLC

VARIABLES call

vars == <<call>>

(***************************************************************************)
(* Bounds of the model                                                     *)
(***************************************************************************)
\* largest opts.retries tried (the smallest is -1: Number.isInteger accepts it)
MaxRetries == 2
\* Math.random() is a multiple of 1/RandDen
RandDen == 1000
\* the small integer Retry-After values tried are -2 .. MaxHint
MaxHint == 3
\* the backoff bases 1 .. MaxBase and RndSteps evenly spaced draws are tried
\* where jitter is evaluated on its own
MaxBase == 20
RndSteps == 50

(***************************************************************************)
(* Module defaults, lines 165-168 (the values used when the environment    *)
(* variables are unset)                                                    *)
(***************************************************************************)
DEFAULT_TIMEOUT_MS == 15000
DEFAULT_RETRIES == 3
DEFAULT_BACKOFF_BASE == 500
MAX_RETRY_AFTER_SECS == 120

(***************************************************************************)
(* Strings and numbers                                                     *)
(***************************************************************************)
Digits == <<"0", "1", "2", "3", "4", "5", "6", "7", "8", "9">>

IsDigit(ch) == \E i \in 1..Len(Digits) : Digits[i] = ch

DigitVal(ch) == (CHOOSE i \in 1..Len(Digits) : Digits[i] = ch) - 1

\* String(n) for an integer n: its decimal digits, "-" first when negative
RECURSIVE NatStr(_)
NatStr(n) == IF n < 10 THEN <<Digits[n + 1]>>
             ELSE NatStr(n \div 10) \o <<Digits[(n % 10) + 1]>>

IntStr(n) == IF n < 0 THEN <<"-">> \o NatStr(0 - n) ELSE NatStr(n)

\* a JS number that may be NaN
NaN == [nan |-> TRUE, val |-> 0]
Num(n) == [nan |-> FALSE, val |-> n]

RECURSIVE SkipWs(_)
SkipWs(s) == IF s # <<>> /\ Head(s) = " " THEN SkipWs(Tail(s)) ELSE s

RECURSIVE DigitsValue(_, _)
DigitsValue(s, acc) ==
    IF s # <<>> /\ IsDigit(Head(s))
    THEN DigitsValue(Tail(s), acc * 10 + DigitVal(Head(s)))
    ELSE acc

\* parseInt(s, 10): leading white space, an optional sign, then the longest
\* run of digits; NaN when there is no digit at that place
parseInt(s) ==
    LET t    == SkipWs(s)
        neg  == t # <<>> /\ Head(t) = "-"
        sgn  == t # <<>> /\ Head(t) \in {"-", "+"}
        body == IF sgn THEN Tail(t) ELSE t
    IN  IF body = <<>> \/ ~IsDigit(Head(body)) THEN NaN
        ELSE Num(IF neg THEN 0 - DigitsValue(body, 0) ELSE DigitsValue(body, 0))

RECURSIVE Pow2(_)
Pow2(n) == IF n <= 0 THEN 1 ELSE 2 * Pow2(n - 1)

Min(a, b) == IF a < b THEN a ELSE b
Max(a, b) == IF a > b THEN a ELSE b

(***************************************************************************)
(* Retry-After header values: res.headers.get("retry-after")               *)
(***************************************************************************)
\* null: the header is absent
NoHeader == [kind |-> "absent", chars |-> <<>>, at |-> 0]
\* a header whose text is chars and is no date
Text(chars) == [kind |-> "text", chars |-> chars, at |-> 0]
\* an HTTP-date ("Wed, 21 Oct 2015 07:28:00 GMT") for the instant at (ms)
HttpDate(at) == [kind |-> "httpdate", chars |-> <<"W", "e", "d", ",">>, at |-> at]

\* Date.parse(ra): the instant of an HTTP-date, NaN for the other texts used
DateParse(ra) == IF ra.kind = "httpdate" THEN Num(ra.at) ELSE NaN

\* `if (ra)`: null and the empty string are falsy
Truthy(ra) == ra.kind # "absent" /\ ra.chars # <<>>

(***************************************************************************)
(* The pure helpers of the module                                          *)
(***************************************************************************)
\* the codes isTransientError retries on, line 177
transientCodes ==
    {"ECONNRESET", "ETIMEDOUT", "EAI_AGAIN", "ENOTFOUND", "EPIPE", "ECONNREFUSED"}

\* null, as the value of lastErr before any attempt threw
NoErr == [name |-> "", code |-> "", at |-> 0, message |-> ""]

\* an error thrown by attempt `at`; code "" is an absent err.code
Err(name, code, at) == [name |-> name, code |-> code, at |-> at, message |-> "net"]

\* isTransientError that retries on every error carrying a code
isTransientError_AnyCode(err) ==
    IF err = NoErr THEN FALSE
    ELSE IF err.code # "" THEN TRUE
    ELSE IF err.name = "FetchError" \/ err.name = "AbortError" THEN TRUE
    ELSE FALSE

\* isTransientError(err), lines 174-182 (e.code is falsy when absent)
isTransientError(err) ==
    IF err = NoErr THEN FALSE
    ELSE IF err.code # "" /\ err.code \in transientCodes THEN TRUE
    ELSE IF err.name = "FetchError" \/ err.name = "AbortError" THEN TRUE
    ELSE FALSE

\* jitter that adds the whole of delta (`ms + delta`)
jitter_FullDelta(ms, rnd) ==
    LET delta == (ms * 3 * rnd) \div (10 * RandDen)
    IN  ms + delta

\* jitter(ms), lines 184-188, with Math.random() = rnd / RandDen.
\* \div rounds towards minus infinity, as Math.floor does.
jitter(ms, rnd) ==
    LET delta == (ms * 3 * rnd) \div (10 * RandDen)
    IN  ms - (delta \div 2) + delta

\* ResOk that takes 200 alone for a success
ResOk_Only200(status) == status = 200

\* res.ok, tested at line 228: node-fetch sets it for a status in 200..299
ResOk(status) == status >= 200 /\ status < 300

\* RetryableStatus with 429 forgotten
RetryableStatus_No429(status) == status >= 500 /\ status < 600

\* the status test of line 237
RetryableStatus(status) == status = 429 \/ (status >= 500 /\ status < 600)

\* RetryAfterWaitMs that leaves the integer header in seconds (no `* 1000`)
RetryAfterWaitMs_Seconds(ra, now) ==
    IF ~Truthy(ra) THEN 0
    ELSE LET raInt == parseInt(ra.chars)
         IN  IF ~raInt.nan
             THEN Min(raInt.val, MAX_RETRY_AFTER_SECS)
             ELSE LET retryDate == DateParse(ra)
                  IN  IF ~retryDate.nan
                      THEN LET secs == (retryDate.val - now) \div 1000
                           IN  Max(0, Min(secs, MAX_RETRY_AFTER_SECS)) * 1000
                      ELSE 0

\* RetryAfterWaitMs without the Math.min of line 243 (integer not clamped)
RetryAfterWaitMs_NoClamp(ra, now) ==
    IF ~Truthy(ra) THEN 0
    ELSE LET raInt == parseInt(ra.chars)
         IN  IF ~raInt.nan
             THEN raInt.val * 1000
             ELSE LET retryDate == DateParse(ra)
                  IN  IF ~retryDate.nan
                      THEN LET secs == (retryDate.val - now) \div 1000
                           IN  Max(0, Min(secs, MAX_RETRY_AFTER_SECS)) * 1000
                      ELSE 0

\* RetryAfterWaitMs without the Math.floor of line 248 (the milliseconds
\* until the date, not cut to whole seconds)
RetryAfterWaitMs_DateMs(ra, now) ==
    IF ~Truthy(ra) THEN 0
    ELSE LET raInt == parseInt(ra.chars)
         IN  IF ~raInt.nan
             THEN Min(raInt.val, MAX_RETRY_AFTER_SECS) * 1000
             ELSE LET retryDate == DateParse(ra)
                  IN  IF ~retryDate.nan
                      THEN Max(0, Min(retryDate.val - now,
                                      MAX_RETRY_AFTER_SECS * 1000))
                      ELSE 0

\* lines 239-252: the wait taken from the Retry-After value ra at time now,
\* 0 when there is none
RetryAfterWaitMs(ra, now) ==
    IF ~Truthy(ra) THEN 0
    ELSE LET raInt == parseInt(ra.chars)
         IN  IF ~raInt.nan
             THEN Min(raInt.val, MAX_RETRY_AFTER_SECS) * 1000
             ELSE LET retryDate == DateParse(ra)
                  IN  IF ~retryDate.nan
                      THEN LET secs == (retryDate.val - now) \div 1000
                           IN  Max(0, Min(secs, MAX_RETRY_AFTER_SECS)) * 1000
                      ELSE 0

\* BackoffBaseMs with a 0-based exponent short by the current attempt
\* (`Math.pow(2, attempt)`)
BackoffBaseMs_ExponentAttempt(backoffBase, attempt) == backoffBase * Pow2(attempt)

\* lines 254 and 277: base = backoffBase * Math.pow(2, attempt - 1)
BackoffBaseMs(backoffBase, attempt) == backoffBase * Pow2(attempt - 1)

\* StatusWaitMs that falls back to the backoff for a negative wait only
\* (`waitMs < 0`)
StatusWaitMs_NegativeOnly(ra, now, backoffBase, attempt, rnd) ==
    LET waitMs == RetryAfterWaitMs(ra, now)
    IN  IF waitMs < 0 THEN jitter(BackoffBaseMs(backoffBase, attempt), rnd)
        ELSE waitMs

\* lines 239-256: the wait before the retry of a retryable status
StatusWaitMs(ra, now, backoffBase, attempt, rnd) ==
    LET waitMs == RetryAfterWaitMs(ra, now)
    IN  IF waitMs <= 0 THEN jitter(BackoffBaseMs(backoffBase, attempt), rnd)
        ELSE waitMs

\* lines 277-278: the wait before the retry of a transient error
ErrorWaitMs(backoffBase, attempt, rnd) ==
    jitter(BackoffBaseMs(backoffBase, attempt), rnd)

(***************************************************************************)
(* Inputs: options of a call, responses and transport errors of an attempt *)
(***************************************************************************)
\* an option that is absent (or no integer) takes the module default
Absent == [given |-> FALSE, val |-> 0]
Given(n) == [given |-> TRUE, val |-> n]

\* opts.retries: absent, or an integer (Number.isInteger accepts -1)
OptRetries == {Absent} \cup {Given(n) : n \in (0 - 1)..MaxRetries}

\* opts.backoffBase: absent, or an integer (Number.isInteger accepts -4)
OptBackoffBases == {Absent} \cup {Given(n) : n \in {0 - 4, 1, 4}}

Opts == [retries : OptRetries, backoffBase : OptBackoffBases, signal : BOOLEAN]

\* statuses tried: ok, terminal and retryable ones, with the edges of 429
\* and of 500..599
OkStatuses == {200, 299}
TerminalStatuses == {199, 300, 404, 428, 430, 499, 600}
RetryableStatuses == {429, 500, 503, 599}
Statuses == OkStatuses \cup TerminalStatuses \cup RetryableStatuses

\* instants (ms): the values of Date.now() and of HTTP-dates
Nows == {50000, 50999}
DateInstants == {0, 50000, 51000, 52999, 170999, 900000}

\* Retry-After values tried: none, integers, other texts, HTTP-dates
HintInts == ((0 - 2)..MaxHint) \cup
            {MAX_RETRY_AFTER_SECS - 1, MAX_RETRY_AFTER_SECS,
             MAX_RETRY_AFTER_SECS + 1, 1000 * MAX_RETRY_AFTER_SECS}
IntHints == {Text(IntStr(n)) : n \in HintInts}
OtherHints == {Text(<<>>), Text(<<"x">>), Text(<<"-">>), Text(<<" ", "7">>),
               Text(<<"5", "x">>)}
DateHints == {HttpDate(d) : d \in DateInstants}
Hints == {NoHeader} \cup IntHints \cup OtherHints \cup DateHints

\* no response (the `res` of an attempt before fetch resolved)
NoRes == [status |-> 0, ra |-> NoHeader, at |-> 0, bodyUsed |-> FALSE]

\* the response of attempt `at`
Res(status, ra, at) == [status |-> status, ra |-> ra, at |-> at, bodyUsed |-> FALSE]

\* (status, Retry-After) of the responses tried: every status without the
\* header, 429 with every header value, 503 with some
ResponseShapes ==
    {<<st, NoHeader>> : st \in Statuses}
      \cup ({429} \X Hints)
      \cup ({503} \X {Text(IntStr(0)), Text(IntStr(MaxHint))})

\* names and codes an error can carry; "" is an absent code
ErrorNames == {"FetchError", "AbortError", "Error", "TypeError"}
ErrorCodes == transientCodes \cup {"EHOSTUNREACH", "ECONNABORTED", ""}

\* (name, code) of the transport errors fetch rejects with in the runs, other
\* than aborts: node-fetch's FetchError with a code of the list and with
\* another code, a bare system error, and errors of neither kind
ErrorShapes ==
    {<<"FetchError", "ECONNRESET">>, <<"FetchError", "EHOSTUNREACH">>,
     <<"Error", "ETIMEDOUT">>, <<"Error", "EHOSTUNREACH">>, <<"TypeError", "">>}

\* the error fetch rejects with when its signal is aborted
AbortErr(at) == [name |-> "AbortError", code |-> "", at |-> at, message |-> "aborted"]

\* line 291: new Error(`fetch-with-retries: failed to fetch ${url}`)
GenericErr == [name |-> "Error", code |-> "", at |-> 0, message |-> "failed to fetch"]

(***************************************************************************)
(* fetchOptions.signal                                                     *)
(***************************************************************************)
NoSignal == [src |-> "none", id |-> 0]
CallerSignal == [src |-> "caller", id |-> 0]
\* controller.signal of the AbortController made by attempt k
Internal(k) == [src |-> "internal", id |-> k]

(***************************************************************************)
(* The record of a call's attempts, kept for the properties only: hist     *)
(* holds one entry per finished attempt, "error" for a rejected fetch and  *)
(* the class of the status for a response.  The class is read off the      *)
(* status number and does not use the code's tests.                        *)
(***************************************************************************)
StatusClass(status) ==
    IF status \in 200..299 THEN "ok"
    ELSE IF status \in ({429} \cup (500..599)) THEN "retryable"
    ELSE "terminal"

(***************************************************************************)
(* The console: log holds the lines the call wrote since its current       *)
(* attempt started, each with the attempt number of its attemptTag.        *)
(* "debug" is line 223, "http" 234, "body" 235, "threw" 267, "stack" 270   *)
(* (the errors of fetch carry a stack), "timeout" 273, "retry" 257 and 279 *)
(***************************************************************************)
Line(tag, kind) == [tag |-> tag, line |-> kind]

\* lines 267-274: the lines catch writes for err
CatchLines(err, attempt) ==
    <<Line(attempt, "threw"), Line(attempt, "stack")>>
      \o (IF err.name = "AbortError" THEN <<Line(attempt, "timeout")>> ELSE <<>>)

(***************************************************************************)
(* One call: its locals, and the blocks of fetchWithRetry                  *)
(***************************************************************************)
\* lines 199-210: the locals before the loop
NewCall(opts) ==
    [pc           |-> "idle",
     retries      |-> IF opts.retries.given THEN opts.retries.val
                      ELSE DEFAULT_RETRIES,
     backoffBase  |-> IF opts.backoffBase.given THEN opts.backoffBase.val
                      ELSE DEFAULT_BACKOFF_BASE,
     callerSignal |-> opts.signal,
     callerAborted |-> FALSE,
     signal       |-> IF opts.signal THEN CallerSignal ELSE NoSignal,
     attempt      |-> 0,
     lastErr      |-> NoErr,
     aborted      |-> {},
     timer        |-> 0,
     res          |-> NoRes,
     snippet      |-> "",
     waitMs       |-> 0,
     requests     |-> 0,
     sleeps       |-> 0,
     hist         |-> <<>>,
     log          |-> <<>>,
     retRes       |-> NoRes,
     retErr       |-> NoErr]

\* StartAttempt with `attempt += 1` left out
StartAttempt_NoIncrement(s) ==
    [s EXCEPT !.signal   = IF s.signal.src = "none" THEN Internal(s.attempt + 1)
                           ELSE s.signal,
              !.timer    = s.attempt + 1,
              !.res      = NoRes,
              !.snippet  = "",
              !.waitMs   = 0,
              !.log      = <<Line(s.attempt + 1, "debug")>>,
              !.requests = s.requests + 1,
              !.pc       = "fetching"]

\* StartAttempt that arms the timer only when fetchOptions carried no signal
StartAttempt_TimerOnlyOwnSignal(s) ==
    [s EXCEPT !.attempt  = s.attempt + 1,
              !.signal   = IF s.signal.src = "none" THEN Internal(s.attempt + 1)
                           ELSE s.signal,
              !.timer    = IF s.signal.src = "none" THEN s.attempt + 1 ELSE 0,
              !.res      = NoRes,
              !.snippet  = "",
              !.waitMs   = 0,
              !.log      = <<Line(s.attempt + 1, "debug")>>,
              !.requests = s.requests + 1,
              !.pc       = "fetching"]

\* StartAttempt with `attempt` kept in one variable of the module, shared
\* by the calls: it counts the attempts of all of them
StartAttempt_SharedAttempt(s) ==
    LET all == {call[c].attempt : c \in DOMAIN call}
        n   == 1 + CHOOSE m \in all : \A k \in all : k <= m
    IN  [s EXCEPT !.attempt  = n,
                  !.signal   = IF s.signal.src = "none" THEN Internal(n)
                               ELSE s.signal,
                  !.timer    = n,
                  !.res      = NoRes,
                  !.snippet  = "",
                  !.waitMs   = 0,
                  !.log      = <<Line(n, "debug")>>,
                  !.requests = s.requests + 1,
                  !.pc       = "fetching"]

\* lines 213-225: a new attempt up to `await fetch(url, fetchOptions)`
StartAttempt(s) ==
    [s EXCEPT !.attempt  = s.attempt + 1,
              !.signal   = IF s.signal.src = "none" THEN Internal(s.attempt + 1)
                           ELSE s.signal,
              !.timer    = s.attempt + 1,
              !.res      = NoRes,
              !.snippet  = "",
              !.waitMs   = 0,
              !.log      = <<Line(s.attempt + 1, "debug")>>,
              !.requests = s.requests + 1,
              !.pc       = "fetching"]

\* lines 291-292: the loop was left
AfterLoop(s) ==
    [s EXCEPT !.pc     = "raised",
              !.waitMs = 0,
              !.retErr = IF s.lastErr # NoErr THEN s.lastErr ELSE GenericErr]

\* line 212: while (attempt <= retries)
LoopTest(s) == IF s.attempt <= s.retries THEN StartAttempt(s) ELSE AfterLoop(s)

\* finally that leaves the attempt's signal in fetchOptions
Finally_KeepSignal(s) == [s EXCEPT !.timer = 0]

\* lines 285-288: finally
Finally(s) ==
    [s EXCEPT !.signal = IF s.signal = Internal(s.attempt) THEN NoSignal
                         ELSE s.signal,
              !.timer  = 0]

\* is the signal handed to fetch aborted?
SignalAborted(s) ==
    CASE s.signal.src = "caller"   -> s.callerAborted
      [] s.signal.src = "internal" -> s.signal.id \in s.aborted
      [] OTHER                     -> FALSE

\* RetryStatus with the budget test off by one (`attempt < retries`)
RetryStatus_OffByOne(status, attempt, retries) ==
    RetryableStatus(status) /\ attempt < retries

\* line 237: retry this non-ok status?
RetryStatus(status, attempt, retries) ==
    RetryableStatus(status) /\ attempt <= retries

\* RetryError with the budget test off by one (`attempt < retries`)
RetryError_OffByOne(err, attempt, retries) ==
    isTransientError(err) /\ attempt < retries

\* line 276: retry this error?
RetryError(err, attempt, retries) ==
    isTransientError(err) /\ attempt <= retries

\* lines 226-233: fetch resolved with res; up to `return res` or to the
\* await of the body text
OnResponse(s, res) ==
    LET t == [s EXCEPT !.timer = 0, !.res = res]
    IN  IF ResOk(res.status)
        THEN [Finally(t) EXCEPT !.pc = "returned", !.retRes = res,
                                !.hist = Append(s.hist, StatusClass(res.status))]
        ELSE [t EXCEPT !.pc = "reading"]

\* OnBody without the try/catch of readResponseSnippet: a failed read of
\* the body is thrown to the caller
OnBody_FailedReadThrows(s, readOk, now, rnd) ==
    LET res == [s.res EXCEPT !.bodyUsed = TRUE]
        t   == [s EXCEPT !.res = res,
                         !.snippet = IF readOk THEN "text" ELSE "failed",
                         !.log = s.log \o <<Line(s.attempt, "http"),
                                            Line(s.attempt, "body")>>,
                         !.hist = Append(s.hist, StatusClass(res.status))]
    IN  IF ~readOk
        THEN [Finally(t) EXCEPT !.pc = "raised",
                                !.lastErr = Err("FetchError", "", s.attempt),
                                !.retErr = Err("FetchError", "", s.attempt)]
        ELSE IF RetryStatus(res.status, s.attempt, s.retries)
        THEN [t EXCEPT !.waitMs = StatusWaitMs(res.ra, now, s.backoffBase,
                                               s.attempt, rnd),
                       !.log    = Append(t.log, Line(s.attempt, "retry")),
                       !.sleeps = s.sleeps + 1,
                       !.pc     = "sleeping"]
        ELSE [Finally(t) EXCEPT !.pc = "returned", !.retRes = res]

\* lines 190-197 and 233-263: the body text arrived (readOk) or its read
\* failed; up to `await sleep(waitMs)` or to `return res`
OnBody(s, readOk, now, rnd) ==
    LET res == [s.res EXCEPT !.bodyUsed = TRUE]
        t   == [s EXCEPT !.res = res,
                         !.snippet = IF readOk THEN "text" ELSE "failed",
                         !.log = s.log \o <<Line(s.attempt, "http"),
                                            Line(s.attempt, "body")>>,
                         !.hist = Append(s.hist, StatusClass(res.status))]
    IN  IF RetryStatus(res.status, s.attempt, s.retries)
        THEN [t EXCEPT !.waitMs = StatusWaitMs(res.ra, now, s.backoffBase,
                                               s.attempt, rnd),
                       !.log    = Append(t.log, Line(s.attempt, "retry")),
                       !.sleeps = s.sleeps + 1,
                       !.pc     = "sleeping"]
        ELSE [Finally(t) EXCEPT !.pc = "returned", !.retRes = res]

\* OnError that writes nothing to the console
OnError_Silent(s, err, rnd) ==
    LET t == [s EXCEPT !.timer = 0, !.lastErr = err,
                       !.hist = Append(s.hist, "error")]
    IN  IF RetryError(err, s.attempt, s.retries)
        THEN [t EXCEPT !.waitMs = ErrorWaitMs(s.backoffBase, s.attempt, rnd),
                       !.sleeps = s.sleeps + 1,
                       !.pc     = "sleeping"]
        ELSE [Finally(t) EXCEPT !.pc = "raised", !.retErr = err]

\* OnError without the clearTimeout(timer) of line 265
OnError_NoClear(s, err, rnd) ==
    LET t == [s EXCEPT !.lastErr = err,
                       !.log = s.log \o CatchLines(err, s.attempt),
                       !.hist = Append(s.hist, "error")]
    IN  IF RetryError(err, s.attempt, s.retries)
        THEN [t EXCEPT !.waitMs = ErrorWaitMs(s.backoffBase, s.attempt, rnd),
                       !.log    = Append(t.log, Line(s.attempt, "retry")),
                       !.sleeps = s.sleeps + 1,
                       !.pc     = "sleeping"]
        ELSE [Finally(t) EXCEPT !.pc = "raised", !.retErr = err]

\* lines 264-284: fetch rejected with err; up to `await sleep(waitMs)` or to
\* `throw err`
OnError(s, err, rnd) ==
    LET t == [s EXCEPT !.timer = 0, !.lastErr = err,
                       !.log = s.log \o CatchLines(err, s.attempt),
                       !.hist = Append(s.hist, "error")]
    IN  IF RetryError(err, s.attempt, s.retries)
        THEN [t EXCEPT !.waitMs = ErrorWaitMs(s.backoffBase, s.attempt, rnd),
                       !.log    = Append(t.log, Line(s.attempt, "retry")),
                       !.sleeps = s.sleeps + 1,
                       !.pc     = "sleeping"]
        ELSE [Finally(t) EXCEPT !.pc = "raised", !.retErr = err]

\* OnWake of a sleep whose promise is never resolved: the call stays asleep
OnWake_NeverResolved(s) == s

\* OnWake that counts the attempt once more before the loop test
OnWake_SkipAttemptNumber(s) ==
    LoopTest([Finally(s) EXCEPT !.attempt = IF s.attempt < s.retries
                                            THEN s.attempt + 1 ELSE s.attempt])

\* the sleep is over: `continue` runs finally, then the loop test
OnWake(s) == LoopTest(Finally(s))

(***************************************************************************)
(* The state machine: call[c] is the state of call c                       *)
(***************************************************************************)
Calls == DOMAIN call

\* the draws of Math.random() tried, as numerators over RandDen: 0, about
\* 1/3, 1/2 and 9/10, and the largest value below 1
Rnds == {0, RandDen \div 3, RandDen \div 2, (9 * RandDen) \div 10, RandDen - 1}

\* one call, with any options
Init == call \in [{1} -> {NewCall(o) : o \in Opts}]

\* fetchWithRetry(url, opts) is called: lines 199-225
Begin(c) ==
    /\ call[c].pc = "idle"
    /\ call' = [call EXCEPT ![c] = LoopTest(call[c])]

\* fetch resolves with a response
FetchResponds(c) ==
    /\ call[c].pc = "fetching"
    /\ ~SignalAborted(call[c])
    /\ \E sh \in ResponseShapes :
         call' = [call EXCEPT ![c] =
                    OnResponse(call[c], Res(sh[1], sh[2], call[c].attempt))]

\* fetch rejects with a transport error
FetchFails(c) ==
    /\ call[c].pc = "fetching"
    /\ ~SignalAborted(call[c])
    /\ \E sh \in ErrorShapes, rnd \in Rnds :
         call' = [call EXCEPT ![c] =
                    OnError(call[c], Err(sh[1], sh[2], call[c].attempt), rnd)]

\* fetch rejects because the signal it was given is aborted
FetchAborted(c) ==
    /\ call[c].pc = "fetching"
    /\ SignalAborted(call[c])
    /\ \E rnd \in Rnds :
         call' = [call EXCEPT ![c] =
                    OnError(call[c], AbortErr(call[c].attempt), rnd)]

\* line 222: the timer of the attempt fires and aborts its controller
TimerFires(c) ==
    /\ call[c].timer # 0
    /\ call' = [call EXCEPT ![c].aborted = @ \cup {call[c].timer},
                            ![c].timer = 0]

\* the caller aborts the signal it passed in opts
CallerAborts(c) ==
    /\ call[c].callerSignal
    /\ ~call[c].callerAborted
    /\ call[c].pc \notin {"returned", "raised"}
    /\ call' = [call EXCEPT ![c].callerAborted = TRUE]

\* res.text() settles in readResponseSnippet
BodyRead(c) ==
    /\ call[c].pc = "reading"
    /\ \E readOk \in BOOLEAN, now \in Nows, rnd \in Rnds :
         call' = [call EXCEPT ![c] = OnBody(call[c], readOk, now, rnd)]

\* the timer of sleep(waitMs) fires
Wake(c) ==
    /\ call[c].pc = "sleeping"
    /\ call' = [call EXCEPT ![c] = OnWake(call[c])]

Next ==
    \/ \E c \in Calls : Begin(c)
    \/ \E c \in Calls : FetchResponds(c)
    \/ \E c \in Calls : FetchFails(c)
    \/ \E c \in Calls : FetchAborted(c)
    \/ \E c \in Calls : TimerFires(c)
    \/ \E c \in Calls : CallerAborts(c)
    \/ \E c \in Calls : BodyRead(c)
    \/ \E c \in Calls : Wake(c)

Spec == Init /\ [][Next]_vars

\* the one call of Init
CallIds == {1}

\* The event loop runs every continuation that is ready: the body of the
\* called function (Begin) and, line 171, the continuation of a sleep whose
\* setTimeout always fires (Wake).  The network is taken to settle every
\* request: fetch resolves or rejects, or rejects once the signal it was
\* given is aborted, and the body of a response that arrived ends or fails.
\* Nothing is assumed of the attempt's timer nor of the caller.
FetchSettles(c) == FetchResponds(c) \/ FetchFails(c) \/ FetchAborted(c)

LiveSpec ==
    /\ Spec
    /\ \A c \in CallIds :
         /\ WF_vars(Begin(c))
         /\ WF_vars(Wake(c))
         /\ WF_vars(FetchSettles(c))
         /\ WF_vars(BodyRead(c))

(***************************************************************************)
(* Two calls running concurrently: each has its own locals (lines 200-220  *)
(* are `const` and `let` of the function, fetchOptions is a copy made by   *)
(* line 204), and the steps of the two interleave at their awaits.  The    *)
(* options, responses and errors tried are fewer than for one call.        *)
(***************************************************************************)
TwoCallIds == {1, 2}

TwoCallOpts ==
    [retries : {Given(0), Given(1)}, backoffBase : {Given(1)}, signal : BOOLEAN]

TwoCallResponseShapes ==
    {<<200, NoHeader>>, <<404, NoHeader>>, <<503, NoHeader>>,
     <<429, Text(IntStr(MaxHint))>>}

TwoCallErrorShapes == {<<"FetchError", "ECONNRESET">>, <<"TypeError", "">>}

TwoCallInit == call \in [TwoCallIds -> {NewCall(o) : o \in TwoCallOpts}]

\* fetch of call c resolves with a response
TwoCallFetchResponds(c) ==
    /\ call[c].pc = "fetching"
    /\ ~SignalAborted(call[c])
    /\ \E sh \in TwoCallResponseShapes :
         call' = [call EXCEPT ![c] =
                    OnResponse(call[c], Res(sh[1], sh[2], call[c].attempt))]

\* fetch of call c rejects with a transport error
TwoCallFetchFails(c) ==
    /\ call[c].pc = "fetching"
    /\ ~SignalAborted(call[c])
    /\ \E sh \in TwoCallErrorShapes :
         call' = [call EXCEPT ![c] =
                    OnError(call[c], Err(sh[1], sh[2], call[c].attempt), 0)]

\* res.text() of call c settles
TwoCallBodyRead(c) ==
    /\ call[c].pc = "reading"
    /\ \E readOk \in BOOLEAN :
         call' = [call EXCEPT ![c] = OnBody(call[c], readOk, 50000, 0)]

TwoCallNext ==
    \/ \E c \in Calls : Begin(c)
    \/ \E c \in Calls : TwoCallFetchResponds(c)
    \/ \E c \in Calls : TwoCallFetchFails(c)
    \/ \E c \in Calls : FetchAborted(c)
    \/ \E c \in Calls : TimerFires(c)
    \/ \E c \in Calls : CallerAborts(c)
    \/ \E c \in Calls : TwoCallBodyRead(c)
    \/ \E c \in Calls : Wake(c)

TwoCallSpec == TwoCallInit /\ [][TwoCallNext]_vars

(***************************************************************************)
(* Properties                                                              *)
(***************************************************************************)
Ended(s) == s.pc \in {"returned", "raised"}

Last(h) == h[Len(h)]

\* C1: for a retry count N >= 0, one call issues at most N + 1 requests,
\* whatever the outcomes of its attempts.
C1_AtMostRetriesPlusOneRequests ==
    \A c \in Calls :
        call[c].retries >= 0 => call[c].requests <= call[c].retries + 1

\* a call with retries >= 1 that used its whole budget
C1_Witness ==
    \E c \in Calls :
        /\ call[c].retries >= 1
        /\ Ended(call[c])
        /\ call[c].requests = call[c].retries + 1

\* C2: the call ends raised only when its last attempt ended in a transport
\* failure that was not retried (fatal, or transient on attempt retries + 1),
\* and then raises; when the last attempt ended in a response the call
\* returns that response.
C2_RaisesOnlyAfterUnretriedTransportFailure ==
    \A c \in Calls :
        LET s == call[c]
        IN  /\ s.pc = "raised" =>
                 /\ s.hist # <<>>
                 /\ Last(s.hist) = "error"
                 /\ s.retErr = s.lastErr
                 /\ s.retErr.at = s.attempt
                 /\ (~isTransientError(s.retErr) \/ s.attempt = s.retries + 1)
            /\ (Ended(s) /\ s.hist # <<>> /\ Last(s.hist) # "error") =>
                 /\ s.pc = "returned"
                 /\ s.retRes.at = s.attempt
                 /\ s.retRes.status = s.res.status

\* C3: a non-ok response on attempt k is followed by attempt k + 1 exactly
\* when its status is 429 or in 500..599 and k < retries + 1; any other
\* non-ok response is returned at attempt k.
C3_StatusRetriedIffRetryableAndBudget ==
    [][\A c \in Calls :
         LET s == call[c]
             n == call'[c]
             retry == /\ s.res.status \in ({429} \cup (500..599))
                      /\ s.attempt < s.retries + 1
         IN  /\ (s.pc = "reading" /\ n.pc # "reading") =>
                   IF retry
                   THEN n.pc = "sleeping" /\ n.attempt = s.attempt
                        /\ n.requests = s.requests
                   ELSE n.pc = "returned" /\ n.attempt = s.attempt
                        /\ n.requests = s.requests
                        /\ n.retRes.at = s.attempt
                        /\ n.retRes.status = s.res.status
             /\ (s.pc = "sleeping" /\ n.pc # "sleeping") =>
                   n.pc = "fetching" /\ n.attempt = s.attempt + 1
                   /\ n.requests = s.requests + 1
             /\ s.pc = "returned" => n = s]_vars

\* attempt 2 runs after a retryable status, and a terminal status came back
\* with budget left
C3_Witness ==
    \E c \in Calls :
        \/ call[c].pc = "fetching" /\ call[c].hist = <<"retryable">>
        \/ call[c].pc = "returned" /\ call[c].hist = <<"terminal">>
           /\ call[c].retries >= 1

\* C4: when every attempt returned 429 or 5xx, the call made exactly
\* retries + 1 attempts, returned the last response and did not raise.
C4_AllRetryableReturnsLastResponse ==
    \A c \in Calls :
        LET s == call[c]
        IN  (/\ Ended(s)
             /\ s.hist # <<>>
             /\ \A i \in 1..Len(s.hist) : s.hist[i] = "retryable") =>
                /\ s.pc = "returned"
                /\ s.requests = s.retries + 1
                /\ Len(s.hist) = s.retries + 1
                /\ s.retRes.at = s.retries + 1
                /\ s.retRes.status \in ({429} \cup (500..599))

\* three attempts, all with a retryable status
C4_Witness ==
    \E c \in Calls :
        /\ call[c].pc = "returned"
        /\ call[c].hist = <<"retryable", "retryable", "retryable">>
        /\ call[c].retRes.status = 429

\* C5: the first attempt with an ok status ends the call: that response is
\* returned as received, no request and no sleep follow; one retryable
\* status then an ok one gives the ok response after exactly one sleep.
C5_OkEndsTheCall ==
    \A c \in Calls :
        LET s == call[c]
        IN  /\ (s.res # NoRes /\ s.res.status \in 200..299) =>
                 /\ s.pc = "returned"
                 /\ s.retRes = s.res
                 /\ ~s.retRes.bodyUsed
            /\ \A i \in 1..Len(s.hist) :
                 s.hist[i] = "ok" =>
                    /\ i = Len(s.hist)
                    /\ s.pc = "returned"
                    /\ s.retRes.at = i
                    /\ s.retRes.status \in 200..299
                    /\ s.requests = i
                    /\ s.sleeps = i - 1

\* a retryable status on attempt 1, an ok status on attempt 2
C5_Witness ==
    \E c \in Calls :
        /\ call[c].hist = <<"retryable", "ok">>
        /\ call[c].pc = "returned"
        /\ call[c].sleeps = 1

\* C6: an error of attempt k that isTransientError accepts is followed by
\* attempt k + 1 when k < retries + 1; otherwise (fatal, or k = retries + 1)
\* the call raises the very error attempt k threw.
C6_TransientRetriedElseSameErrorRaised ==
    [][\A c \in Calls :
         LET s == call[c]
             n == call'[c]
         IN  /\ (s.pc = "fetching" /\ n.hist = Append(s.hist, "error")) =>
                   /\ n.lastErr.at = s.attempt
                   /\ IF isTransientError(n.lastErr) /\ s.attempt < s.retries + 1
                      THEN n.pc = "sleeping" /\ n.attempt = s.attempt
                      ELSE n.pc = "raised" /\ n.retErr = n.lastErr
             /\ (s.pc = "sleeping" /\ n.pc # "sleeping") =>
                   n.pc = "fetching" /\ n.attempt = s.attempt + 1
                   /\ n.requests = s.requests + 1
             /\ s.pc = "raised" => n = s]_vars

\* attempt 2 runs after a transient error, and a call raised the error of
\* its last attempt after an earlier error was retried
C6_Witness ==
    \E c \in Calls :
        /\ call[c].pc = "raised"
        /\ call[c].hist = <<"error", "error">>
        /\ call[c].retErr.at = 2

\* C7 as stated: if attempt 1 threw an error whose code is not one of
\* transientCodes, whatever its name, the call raised at once and attempt 2
\* was never made.
C7_UnlistedCodeRaisesAtOnce ==
    \A c \in Calls :
        LET s == call[c]
        IN  (s.lastErr.at = 1 /\ s.lastErr.code \notin transientCodes) =>
                /\ s.pc = "raised"
                /\ s.retErr = s.lastErr
                /\ s.requests = 1

\* C7 amended: if attempt 1 threw an error whose code is not one of
\* transientCodes and whose name is neither FetchError nor AbortError, the
\* call raised that error at once and attempt 2 was never made; and no such
\* error, of any other name and code, is taken for transient.
C7_UnlistedCodeAndNameRaisesAtOnce ==
    \A c \in Calls :
        LET s == call[c]
        IN  /\ (/\ s.lastErr.at = 1
                /\ s.lastErr.code \notin transientCodes
                /\ s.lastErr.name \notin {"FetchError", "AbortError"}) =>
                   /\ s.pc = "raised"
                   /\ s.retErr = s.lastErr
                   /\ s.requests = 1
            /\ s.pc = "idle" =>
                 \A name \in ErrorNames \ {"FetchError", "AbortError"},
                    code \in ErrorCodes \ transientCodes :
                     ~RetryError(Err(name, code, 1), 1, s.retries)

\* a call with budget left raised the error of attempt 1, whose code
\* EHOSTUNREACH is not listed
C7_Witness ==
    \E c \in Calls :
        /\ call[c].pc = "raised"
        /\ call[c].retries >= 1
        /\ call[c].requests = 1
        /\ call[c].retErr = Err("Error", "EHOSTUNREACH", 1)

\* C8: without a caller's signal, when the timer of attempt k fires the
\* attempt ends in an AbortError that is retried when k < retries + 1, and
\* attempt k + 1 runs under the signal of a new controller that is not
\* aborted, with its own timer; a timer aborts the controller of its own
\* attempt only.
C8_TimeoutRetriedUnderFreshSignal ==
    [][\A c \in Calls :
         LET s == call[c]
             n == call'[c]
         IN  ~s.callerSignal =>
               /\ (s.pc = "fetching" /\ s.attempt \in s.aborted
                   /\ n.pc # "fetching") =>
                      /\ n.lastErr = AbortErr(s.attempt)
                      /\ IF s.attempt < s.retries + 1
                         THEN n.pc = "sleeping" /\ n.attempt = s.attempt
                         ELSE n.pc = "raised"
               /\ (s.pc = "sleeping" /\ n.pc # "sleeping") =>
                      /\ n.pc = "fetching"
                      /\ n.attempt = s.attempt + 1
                      /\ n.signal = Internal(n.attempt)
                      /\ n.signal.id \notin n.aborted
                      /\ n.timer = n.attempt
               /\ n.aborted # s.aborted =>
                      /\ s.pc = "fetching"
                      /\ n.aborted = s.aborted \cup {s.attempt}
                      /\ n.signal = s.signal]_vars

\* attempt 1 timed out and attempt 2 is in flight under its own signal
C8_Witness ==
    \E c \in Calls :
        /\ ~call[c].callerSignal
        /\ call[c].pc = "fetching"
        /\ call[c].attempt = 2
        /\ call[c].aborted = {1}
        /\ call[c].lastErr = AbortErr(1)
        /\ call[c].signal = Internal(2)

\* the integer H written as a Retry-After header
IntHeader(H) == Text(IntStr(H))

\* C9 as stated: while the call sleeps after a retryable status whose
\* Retry-After is an integer H, 0 <= H <= MAX_RETRY_AFTER_SECS, the sleep is
\* H * 1000 ms (H = 0 included).
C9_IntegerHintSleepsExactly ==
    \A c \in Calls :
        LET s == call[c]
        IN  s.pc = "sleeping" =>
              \A H \in 0..MAX_RETRY_AFTER_SECS :
                  s.res.ra = IntHeader(H) => s.waitMs = H * 1000

\* the headers "1" .. "120"
PositiveIntHeaders == [H \in 1..MAX_RETRY_AFTER_SECS |-> IntHeader(H)]

\* C9 amended: the same for 1 <= H <= MAX_RETRY_AFTER_SECS (a header of 0
\* falls through to the computed backoff).  The second conjunct evaluates
\* the wait for every such H, every attempt of the call and every draw; it
\* does not depend on the state, so it is evaluated before the call starts.
C9_PositiveIntegerHintSleepsExactly ==
    \A c \in Calls :
        LET s == call[c]
        IN  /\ s.pc = "sleeping" =>
                 \A H \in 1..MAX_RETRY_AFTER_SECS :
                     s.res.ra = PositiveIntHeaders[H] => s.waitMs = H * 1000
            /\ s.pc = "idle" =>
                 \A H \in 1..MAX_RETRY_AFTER_SECS, k \in 1..(s.retries + 1),
                    now \in Nows, rnd \in Rnds :
                     StatusWaitMs(IntHeader(H), now, s.backoffBase, k, rnd)
                       = H * 1000

\* the call sleeps 120 s before attempt 3 on Retry-After: 120
C9_Witness ==
    \E c \in Calls :
        /\ call[c].pc = "sleeping"
        /\ call[c].attempt = 2
        /\ call[c].res.ra = IntHeader(MAX_RETRY_AFTER_SECS)
        /\ call[c].waitMs = MAX_RETRY_AFTER_SECS * 1000

AllRetryable(h) == \A i \in 1..Len(h) : h[i] = "retryable"

WaitFromHeader(s) ==
    /\ s.res # NoRes
    /\ \E now \in Nows :
         /\ RetryAfterWaitMs(s.res.ra, now) > 0
         /\ s.waitMs = RetryAfterWaitMs(s.res.ra, now)

\* C11: every wait the call sleeps for is >= 0, and a wait taken from the
\* Retry-After header is at most MAX_RETRY_AFTER_SECS * 1000 ms, for every
\* header value and every integer backoffBase the options accept.
C11_WaitNonNegativeAndHeaderWaitCapped ==
    \A c \in Calls :
        LET s == call[c]
        IN  s.pc = "sleeping" =>
              /\ s.waitMs >= 0
              /\ WaitFromHeader(s) => s.waitMs <= MAX_RETRY_AFTER_SECS * 1000

\* C12: whatever the options, once the timer of an attempt has fired
\* (timeoutMs after its start) the request in flight is cancelled: the
\* signal fetch was given is aborted.
C12_TimeoutCancelsRequestInFlight ==
    \A c \in Calls :
        LET s == call[c]
        IN  (s.pc = "fetching" /\ s.attempt \in s.aborted) => SignalAborted(s)

\* C13: a non-ok response the call returns has not had its body read by
\* the call; the body is read on attempts that are retried only.
C13_ReturnedNonOkBodyUnread ==
    \A c \in Calls :
        LET s == call[c]
        IN  /\ (s.pc = "returned" /\ s.retRes.status \notin 200..299) =>
                 ~s.retRes.bodyUsed /\ s.snippet = ""
            /\ s.pc = "reading" =>
                 /\ s.res.status \in ({429} \cup (500..599))
                 /\ s.attempt < s.retries + 1

\* C15: the timer of an attempt is armed when the attempt starts (while the
\* request is in flight it is pending, or it has fired and aborted the
\* attempt's controller) and it is disarmed before the outcome is acted on:
\* while the body of a response is read, while the call sleeps before a
\* retry, and once the call has returned or raised, no timer is pending.
C15_TimerArmedAtStartDisarmedAfter ==
    \A c \in Calls :
        LET s == call[c]
        IN  /\ s.pc = "fetching" =>
                 \/ s.timer = s.attempt
                 \/ s.timer = 0 /\ s.attempt \in s.aborted
            /\ s.pc \in {"idle", "reading", "sleeping", "returned", "raised"} =>
                 s.timer = 0

\* the call sleeps after a transport error of attempt 1 whose timer was
\* disarmed before it fired
C15_Witness ==
    \E c \in Calls :
        /\ call[c].pc = "sleeping"
        /\ call[c].hist = <<"error">>
        /\ call[c].timer = 0
        /\ call[c].aborted = {}

GridRnds ==
    {IF i = RndSteps THEN RandDen - 1 ELSE (i * RandDen) \div RndSteps :
       i \in 0..RndSteps}

\* the bases tried whose 15% is at least 1 ms
JitterBases ==
    {b \in (1..MaxBase) \cup {DEFAULT_BACKOFF_BASE} : 15 * b >= 100}

\* C17: the jitter is symmetric around base: for every base whose 15% is
\* at least 1 ms, the backoff wait computed for it (by every call, before it
\* starts) takes a value below base for some draw and a value above base
\* for some draw.
C17_JitterBelowAndAboveBase ==
    \A c \in Calls :
        LET s == call[c]
        IN  s.pc = "idle" =>
              \A b \in JitterBases, k \in 1..(MaxRetries + 1) :
                  LET base == BackoffBaseMs(b, k)
                  IN  /\ \E rnd \in GridRnds : ErrorWaitMs(b, k, rnd) < base
                      /\ \E rnd \in GridRnds : ErrorWaitMs(b, k, rnd) > base

\* the wait computed for Retry-After: H is min(H, MAX_RETRY_AFTER_SECS) * 1000
\* for H up to twice MAX_RETRY_AFTER_SECS, every attempt number, every
\* backoffBase of the options, every instant and every draw
C18_WaitOfEveryIntegerHint ==
    \A H \in 1..(2 * MAX_RETRY_AFTER_SECS),
       k \in 1..(MaxRetries + 1),
       b \in {NewCall(o).backoffBase : o \in Opts},
       now \in Nows, rnd \in Rnds :
        StatusWaitMs(IntHeader(H), now, b, k, rnd)
          = Min(H, MAX_RETRY_AFTER_SECS) * 1000

\* C18: while the call sleeps after a retryable status whose Retry-After is
\* an integer H >= 1, the sleep is min(H, MAX_RETRY_AFTER_SECS) * 1000 ms,
\* hints above MAX_RETRY_AFTER_SECS included, and not the computed backoff.
\* The second conjunct evaluates the wait for H up to twice
\* MAX_RETRY_AFTER_SECS, every attempt number, every backoffBase tried and
\* every draw; it does not depend on the state, so it is evaluated before
\* the call starts.
C18_IntegerHintClampedBeatsBackoff ==
    \A c \in Calls :
        LET s == call[c]
        IN  /\ s.pc = "sleeping" =>
                 \A H \in {h \in HintInts : h >= 1} :
                     s.res.ra = IntHeader(H) =>
                         s.waitMs = Min(H, MAX_RETRY_AFTER_SECS) * 1000
            /\ s.pc = "idle" => C18_WaitOfEveryIntegerHint

\* the call sleeps 120 s before attempt 2 on Retry-After: 121, with the
\* default backoffBase (whose backoff would be at most 575 ms)
C18_Witness ==
    \E c \in Calls :
        /\ call[c].pc = "sleeping"
        /\ call[c].attempt = 1
        /\ call[c].backoffBase = DEFAULT_BACKOFF_BASE
        /\ call[c].res.ra = IntHeader(MAX_RETRY_AFTER_SECS + 1)
        /\ call[c].waitMs = MAX_RETRY_AFTER_SECS * 1000

\* Retry-After values that give no wait at any instant of Nows: none, the
\* empty text, texts that are neither an integer nor a date, integers <= 0
\* and dates not after the earliest instant
NoWaitHints ==
    {NoHeader, Text(<<>>), Text(<<"x">>), Text(<<"-">>)}
      \cup {IntHeader(n) : n \in {h \in HintInts : h <= 0}}
      \cup {HttpDate(d) : d \in {x \in DateInstants : \A now \in Nows : x <= now}}

\* the jittered exponential backoffs of attempt k with backoffBase b
Backoffs(b, k) == {jitter(b * Pow2(k - 1), rnd) : rnd \in Rnds}

\* C19: while the call sleeps after a retryable status whose Retry-After is
\* absent, is neither an integer nor a date, or gives a wait <= 0 (integer
\* <= 0, past date), the sleep is a jittered exponential backoff of the
\* current attempt.  The second conjunct evaluates the wait for these
\* values, and for every date less than one second ahead, for every
\* attempt, backoffBase and draw before the call starts.
C19_NoUsableHintFallsBackToBackoff ==
    \A c \in Calls :
        LET s == call[c]
        IN  /\ (s.pc = "sleeping" /\ Last(s.hist) = "retryable"
                                  /\ s.res.ra \in NoWaitHints) =>
                   s.waitMs \in Backoffs(s.backoffBase, s.attempt)
            /\ s.pc = "idle" =>
                 \A k \in 1..(MaxRetries + 1),
                    b \in {NewCall(o).backoffBase : o \in Opts},
                    now \in Nows, rnd \in Rnds :
                     /\ \A ra \in NoWaitHints :
                            StatusWaitMs(ra, now, b, k, rnd)
                              = jitter(b * Pow2(k - 1), rnd)
                     /\ \A d \in DateInstants :
                            d - now < 1000 =>
                              StatusWaitMs(HttpDate(d), now, b, k, rnd)
                                = jitter(b * Pow2(k - 1), rnd)

\* the call sleeps at least 1000 ms before attempt 3 on Retry-After: -1,
\* with the default backoffBase (base 1000 ms)
C19_Witness ==
    \E c \in Calls :
        /\ call[c].pc = "sleeping"
        /\ call[c].attempt = 2
        /\ call[c].backoffBase = DEFAULT_BACKOFF_BASE
        /\ call[c].res.ra = IntHeader(0 - 1)
        /\ call[c].waitMs >= 1000
        /\ call[c].waitMs <= 1150

\* whole seconds from now until the instant d, clamped to
\* [0, MAX_RETRY_AFTER_SECS]; (d - now) \div 1000 is floor((d - now) / 1000)
SecondsUntil(d, now) ==
    Min(Max(0, (d - now) \div 1000), MAX_RETRY_AFTER_SECS)

\* C20: when Retry-After is an HTTP-date D and
\* v = min(max(0, floor((D - now) / 1000)), MAX_RETRY_AFTER_SECS) is
\* positive, the sleep is v * 1000 ms.  While the call sleeps on a date that
\* is at least a second ahead of every instant of Nows, its sleep is that
\* value for one of the instants; the second conjunct evaluates the wait for
\* every date and instant tried before the call starts.
C20_DateHintSleepsWholeSecondsClamped ==
    \A c \in Calls :
        LET s == call[c]
        IN  /\ s.pc = "sleeping" =>
                 \A d \in DateInstants :
                     (/\ s.res.ra = HttpDate(d)
                      /\ \A now \in Nows : SecondsUntil(d, now) > 0) =>
                        \E now \in Nows : s.waitMs = SecondsUntil(d, now) * 1000
            /\ s.pc = "idle" =>
                 \A d \in DateInstants, now \in Nows,
                    k \in 1..(MaxRetries + 1),
                    b \in {NewCall(o).backoffBase : o \in Opts},
                    rnd \in Rnds :
                     SecondsUntil(d, now) > 0 =>
                        StatusWaitMs(HttpDate(d), now, b, k, rnd)
                          = SecondsUntil(d, now) * 1000

\* the call sleeps 2000 ms on a date 2999 ms ahead (read at instant 50000)
C20_Witness ==
    \E c \in Calls :
        /\ call[c].pc = "sleeping"
        /\ call[c].res.ra = HttpDate(52999)
        /\ call[c].waitMs = 2000

\* C21: while the call sleeps after attempt k (k counts every attempt made
\* so far, whatever its outcome) failed with a transport error, or with a
\* retryable status that carries no Retry-After, the sleep is a jittered
\* backoff of base backoffBase * 2^(k-1); after a transport error no
\* response, hence no header, of the attempt is at hand.
C21_ExponentIsIndexOfFailedAttempt ==
    \A c \in Calls :
        LET s == call[c]
            k == Len(s.hist)
        IN  s.pc = "sleeping" =>
              /\ k = s.attempt
              /\ Last(s.hist) = "error" =>
                    /\ s.res = NoRes
                    /\ s.waitMs \in Backoffs(s.backoffBase, k)
              /\ (Last(s.hist) = "retryable" /\ s.res.ra = NoHeader) =>
                    s.waitMs \in Backoffs(s.backoffBase, k)

\* the call sleeps 9 ms (base 4 * 2^1 = 8) after a transport error on
\* attempt 2 that followed a retryable status on attempt 1
C21_Witness ==
    \E c \in Calls :
        /\ call[c].pc = "sleeping"
        /\ call[c].hist = <<"retryable", "error">>
        /\ call[c].backoffBase = 4
        /\ call[c].waitMs = 9

\* the lines of log whose kind is one of kinds
Kinds(log) == {log[i].line : i \in 1..Len(log)}

\* the position of the first line of that kind in log, 0 when there is none
PosOf(log, kind) ==
    IF kind \in Kinds(log)
    THEN CHOOSE i \in 1..Len(log) :
           log[i].line = kind /\ \A j \in 1..(i - 1) : log[j].line # kind
    ELSE 0

\* C22, in every state: the attempts are numbered by the requests made
\* (1, 2, 3, ... without gaps); while attempt k is in flight the k - 1
\* earlier attempts have all been classified and k - 1 sleeps were made;
\* the console lines written since the attempt started all carry its number.
C22_StateOfSequentialAttempts(s) ==
    /\ s.requests = s.attempt
    /\ s.pc = "fetching" =>
          /\ Len(s.hist) = s.attempt - 1
          /\ s.sleeps = s.attempt - 1
    /\ s.pc \in {"reading", "sleeping"} => Len(s.hist) <= s.attempt
    /\ \A i \in 1..Len(s.log) : s.log[i].tag = s.attempt

\* C22, in every step: the attempt number changes only by + 1, only by a
\* step that puts a request in flight, and only from the start of the call
\* or from a sleep that followed the classified outcome of the attempt
\* before; while a request is in flight no other request is made.
C22_StepOfSequentialAttempts(s, n) ==
    /\ n.attempt >= s.attempt
    /\ n.attempt # s.attempt =>
          /\ n.attempt = s.attempt + 1
          /\ n.requests = s.requests + 1
          /\ n.pc = "fetching"
          /\ \/ s.pc = "idle" /\ s.attempt = 0
             \/ /\ s.pc = "sleeping"
                /\ Len(s.hist) = s.attempt
                /\ s.sleeps = s.attempt
    /\ n.attempt = s.attempt => n.requests = s.requests
    /\ s.pc = "fetching" => n.requests = s.requests

\* C22: within one call attempts are sequential and numbered without gaps,
\* at most one request is in flight, attempt k + 1 starts only after the
\* outcome of attempt k was classified and one sleep completed, and the
\* console lines appear in attempt order.
C22_AttemptsSequentialAndNumbered ==
    /\ [](\A c \in Calls : C22_StateOfSequentialAttempts(call[c]))
    /\ [][\A c \in Calls : C22_StepOfSequentialAttempts(call[c], call'[c])]_vars

\* attempt 3 is in flight after two classified attempts and two sleeps
C22_Witness ==
    \E c \in Calls :
        /\ call[c].pc = "fetching"
        /\ call[c].attempt = 3
        /\ call[c].requests = 3
        /\ call[c].hist = <<"error", "retryable">>
        /\ call[c].sleeps = 2
        /\ call[c].log = <<Line(3, "debug")>>

\* C23: when the call sleeps before a retry, has returned a non-ok
\* response or has raised the error of an attempt, the console holds the
\* line of that attempt's outcome ("http" for a response, "threw" for an
\* error), written before the line announcing the retry.
C23_NonSuccessLoggedBeforeActedOn ==
    \A c \in Calls :
        LET s == call[c]
            outcome == IF Last(s.hist) = "error" THEN "threw" ELSE "http"
        IN  (/\ s.pc \in {"sleeping", "returned", "raised"}
             /\ s.hist # <<>>
             /\ Last(s.hist) # "ok") =>
                /\ Line(s.attempt, outcome) \in {s.log[i] : i \in 1..Len(s.log)}
                /\ s.pc = "sleeping" =>
                      /\ PosOf(s.log, "retry") > 0
                      /\ PosOf(s.log, outcome) < PosOf(s.log, "retry")
                /\ s.pc # "sleeping" => "retry" \notin Kinds(s.log)

\* the call raised the error of attempt 2 after writing its lines
C23_Witness ==
    \E c \in Calls :
        /\ call[c].pc = "raised"
        /\ call[c].hist = <<"retryable", "error">>
        /\ call[c].log = <<Line(2, "debug"), Line(2, "threw"), Line(2, "stack")>>

\* C24: whether the read of a non-ok response's body succeeds or fails the
\* call goes on the same way.  While the body is read, the two outcomes of
\* the read lead to states that differ in the snippet alone (same decision,
\* same wait, same response, same attempts); and after a failed read the
\* call sleeps or has returned that response, it has not raised, and it
\* sleeps exactly when the status is a retryable one with budget left.
C24_BodyReadOutcomeLeavesControlFlow ==
    \A c \in Calls :
        LET s == call[c]
        IN  /\ s.pc = "reading" =>
                 \A now \in Nows, rnd \in Rnds :
                     [OnBody(s, FALSE, now, rnd) EXCEPT !.snippet = "text"]
                       = OnBody(s, TRUE, now, rnd)
            /\ s.snippet = "failed" =>
                 /\ s.pc \in {"sleeping", "returned"}
                 /\ s.retErr = NoErr
                 /\ s.lastErr = NoErr \/ s.lastErr.at < s.attempt
                 /\ Len(s.hist) = s.attempt
                 /\ s.pc = "sleeping" <=>
                       (Last(s.hist) = "retryable" /\ s.attempt <= s.retries)
                 /\ s.pc = "returned" =>
                       s.retRes = s.res /\ s.res.at = s.attempt

\* the call returned the 404 of attempt 1 although its body could not be
\* read
C24_Witness ==
    \E c \in Calls :
        /\ call[c].pc = "returned"
        /\ call[c].snippet = "failed"
        /\ call[c].attempt = 1
        /\ call[c].retRes.status = 404

\* C25: for every retries value the options accept, retries + 1 >= 1: a
\* call that ended made at least one request, and it did not end by the
\* code after the loop (which raises lastErr or the generic error without
\* an attempt's own throw).
C25_AtLeastOneAttemptLoopNeverLeft ==
    \A c \in Calls :
        LET s == call[c]
        IN  /\ s.retries + 1 >= 1
            /\ Ended(s) => s.requests >= 1
            /\ s.pc = "raised" =>
                 /\ s.retErr # GenericErr
                 /\ s.hist # <<>>
                 /\ Last(s.hist) = "error"

\* the console holds the timeout warning of the current attempt
TimeoutWarned(s) ==
    Line(s.attempt, "timeout") \in {s.log[i] : i \in 1..Len(s.log)}

\* C27: once an attempt is over (the call sleeps, has returned or has
\* raised), the timeout warning of that attempt is in the console exactly
\* when the attempt's own timer fired; an attempt aborted by the caller's
\* signal has no timeout warning.
C27_TimeoutWarningIffTimerFired ==
    \A c \in Calls :
        LET s == call[c]
        IN  (s.pc \in {"sleeping", "returned", "raised"} /\ s.attempt >= 1) =>
              (TimeoutWarned(s) <=> s.attempt \in s.aborted)

\* C29: once the caller's signal is aborted while the call runs, no new
\* attempt is started, and the attempt that the caller's abort ended is not
\* followed by a sleep for a retry: the call raises the AbortError.
C29_CallerAbortEndsTheCall ==
    [][\A c \in Calls :
         (call[c].callerAborted /\ call[c].pc # "idle") =>
           /\ call'[c].attempt = call[c].attempt
           /\ call'[c].pc # "sleeping" \/ call[c].pc = "sleeping"]_vars

\* C30: while the call is suspended reading the body of a non-ok response
\* the timer of the attempt is still armed (pending, or fired and its
\* controller aborted).
C30_TimerArmedWhileBodyIsRead ==
    \A c \in Calls :
        LET s == call[c]
        IN  s.pc = "reading" =>
              \/ s.timer = s.attempt
              \/ s.attempt \in s.aborted

C26_StateOfOwnCall(s) ==
    /\ s.attempt = s.requests
    /\ s.attempt <= s.retries + 1
    /\ Len(s.hist) <= s.attempt
    /\ s.aborted \subseteq 1..s.attempt
    /\ s.timer \in {0, s.attempt}
    /\ s.pc = "fetching" =>
          s.signal = IF s.callerSignal THEN CallerSignal ELSE Internal(s.attempt)
    /\ \A i \in 1..Len(s.log) : s.log[i].tag = s.attempt
    /\ Ended(s) => Len(s.hist) = s.attempt
    /\ s.pc = "returned" =>
          /\ s.retRes.at = s.attempt
          /\ StatusClass(s.retRes.status) = Last(s.hist)
          /\ Last(s.hist) = "retryable" => s.attempt = s.retries + 1
          /\ Last(s.hist) # "error"
    /\ s.pc = "raised" =>
          /\ s.retErr.at = s.attempt
          /\ Last(s.hist) = "error"

\* C26: two calls interleaved at their suspension points are independent:
\* every step changes the state of one call and leaves the other's as it
\* is, and in every state each call's attempt counter, signal, timer and
\* outcome are those its own options and its own attempts give.
C26_ConcurrentCallsIndependent ==
    /\ [](\A c \in TwoCallIds : C26_StateOfOwnCall(call[c]))
    /\ [][\E c \in TwoCallIds :
             \A d \in TwoCallIds \ {c} : call'[d] = call[d]]_vars

\* call 1 sleeps after its attempt 1 while attempt 2 of call 2 is in
\* flight, each with the timer and the signal of its own attempt
C26_Witness ==
    /\ DOMAIN call = TwoCallIds
    /\ call[1].pc = "sleeping"
    /\ call[1].attempt = 1
    /\ call[2].pc = "fetching"
    /\ call[2].attempt = 2
    /\ call[2].timer = 2
    /\ call[2].signal = Internal(2)
    /\ call[1].hist = <<"retryable">>
    /\ call[2].hist = <<"error">>

====
